---- MODULE Spec2Model ----
(***************************************************************************)
(* FM-Marketplace: the marketplace plugin's request handlers               *)
(* (MarketplaceController), the storage calls they make                    *)
(* (CustomPrismaClient) and the route guards of the plugin.                *)
(*                                                                         *)
(* Every handler is an async function: it runs without interruption up to  *)
(* its next awaited storage call, and each storage call is one SQL         *)
(* statement.  A handler is therefore modelled as a sequence of steps, one *)
(* per storage call; the synchronous code before and after a call belongs  *)
(* to the step of that call.  Spec runs one request at a time; SpecConc    *)
(* lets NReq requests interleave at their await points.                    *)
(*                                                                         *)
(* Optional values (a key that may be absent from a JSON body, a nullable  *)
(* column) are sets of at most one element: {} is undefined / null.        *)
(***************************************************************************)
EXTENDS Integers, FiniteSets, Sequences, TLC

\* ---------------------------------------------------------------- bounds
\* Rows the MarketplaceListing / ListingOffer tables can hold in the model.
MaxListings == 1
MaxOffers == 2
\* Requests that can be in flight at once under SpecConc.
NReq == 2
\* Rows the ListingMessage table can hold in the model.
MaxMessages == 2
\* The longest image list a request body carries.
MaxImages == 3
\* Timers the process creates in the model.
MaxTimers == 3
\* Handlers one event of the EventBus can have registered in the model.
MaxListeners == 3

\* Primary keys are strings produced by uuid_generate_v4(); the tables only
\* guarantee uniqueness inside one table, and the :id path parameter of a
\* request is any string the client sends.  Spec and SpecConc keep at most
\* MaxListings listings, under the ids 1..MaxListings; SpecListings uses
\* every id of ListingIds.
ListingIds == 1..(MaxListings + 1)
OfferIds == 1..MaxOffers
MessageIds == 1..MaxMessages
Ids == ListingIds \cup OfferIds
Slots == 1..NReq

Users == {"u1", "u2"}

\* Users together with an authenticated caller whose role the configuration
\* names nowhere.
Actors == Users \cup {"u3"}

\* The role the authentication layer attaches to each user.
UserRole ==
    [u \in Actors |-> IF u = "u1" THEN "PARENT" ELSE IF u = "u2" THEN "CHILD" ELSE "GUEST"]

\* Plugin configuration: the defaults of configSchema.
canCreateListings == {"PARENT", "CHILD"}
canDeleteListings == {"PARENT"}
canApproveListings == {"PARENT"}
canMakeOffers == {"PARENT", "CHILD"}
autoApproval == FALSE
messaging == TRUE
offersFeature == TRUE

\* The limits section of the configuration, set to the smallest values
\* configSchema admits (each is z.number().min(1)).
maxListingsPerUser == 1
maxOffersPerListing == 1
maxMessagesPerListing == 1
maxImagesPerListing == 2

ListingStatus ==
    {"DRAFT", "PENDING_APPROVAL", "AVAILABLE", "PENDING_PAYMENT", "SOLD", "CANCELLED"}
OfferStatus == {"PENDING", "ACCEPTED", "REJECTED", "CANCELLED"}
ListingCondition == {"NEW", "LIKE_NEW", "GOOD", "FAIR"}

\* Values a request body is drawn from.  An image list is a sequence of
\* URLs; the bodies carry lists of 0 to MaxImages URLs.
TitleInputs == {"", "t"}
DescriptionInputs == {"", "d"}
ConditionInputs == {"NEW", "BROKEN"}
ImageLists == {[i \in 1..n |-> "i"] : n \in 0..MaxImages}
PriceInputs == {-1, 0, 1}
AmountInputs == {-1, 0, 1}
MessageInputs == {"", "m"}
ContentInputs == {"", "c"}
StatusInputs == {"ACCEPTED", "REJECTED", "CANCELLED"}
ListingStatusInputs == {"SOLD"}

Opt(S) == {{}} \cup {{x} : x \in S}

VARIABLES
    listings,   \* table MarketplaceListing: id -> row, for the rows present
    offers,     \* table ListingOffer: id -> row, for the rows present
    messages,   \* table ListingMessage: id -> row, for the rows present
    features,   \* the features section of the plugin's configuration
    req,        \* per request slot: the handler running in it and its position
    payments,   \* history, per listing id: see PaymentsAfter
    timers,     \* the timers setInterval has created: handle -> still active
    metricsInterval,  \* MarketplacePlugin.metricsInterval: a handle or undefined
    metrics,    \* MarketplacePlugin.metrics
    listeners,  \* EventBus.listeners: event -> array of handlers, for the keys present
    dispatch,   \* the emit in progress or last finished: see InitBus
    calls,      \* history: the handler calls of that emit, <<handler, data>> in order
    busCall     \* history: the last subscribe, unsubscribe or clear call

\* The plugin object and the timers of its process.
pluginVars == <<timers, metricsInterval, metrics>>

\* An EventBus and the emit it is running.
busVars == <<listeners, dispatch, calls, busCall>>

\* What the request handlers never touch.
hostVars == <<pluginVars, busVars>>

\* The tables, the configuration and the requests; the plugin's lifecycle
\* methods touch none of it.
marketVars == <<listings, offers, messages, features, req, payments>>

vars == <<listings, offers, messages, features, req, payments, timers, metricsInterval,
          metrics, listeners, dispatch, calls, busCall>>

\* ------------------------------------------------------------ JavaScript
\* Truthiness of an optional number and of an optional string: undefined, 0
\* and "" are falsy.
TruthyNumber(v) == \E x \in v : x # 0

TruthyString(v) == \E x \in v : x # ""

\* ------------------------------------------------------------------- zod
\* z.object strips the keys the schema does not name; parse throws a
\* ZodError when a named key violates its constraint.
NoData ==
    [title |-> {}, description |-> {}, price |-> {}, condition |-> {}, images |-> {},
     sellerId |-> {}, amount |-> {}, message |-> {}, status |-> {}, content |-> {}]

\* listingSchema.partial() without the minimum length of images.
listingSchemaPartialOkAnyImages(data) ==
    /\ \A t \in data.title : t # ""
    /\ \A d \in data.description : d # ""
    /\ \A p \in data.price : p >= 0
    /\ \A c \in data.condition : c \in ListingCondition

\* listingSchema.partial(): every key the body carries meets its constraint.
listingSchemaPartialOk(data) ==
    /\ \A t \in data.title : t # ""
    /\ \A d \in data.description : d # ""
    /\ \A p \in data.price : p >= 0
    /\ \A c \in data.condition : c \in ListingCondition
    /\ \A i \in data.images : Len(i) >= 1

\* listingSchema: the five required keys are there and meet their
\* constraints (tags is optional and unconstrained).
listingSchemaOk(data) ==
    /\ data.title # {}
    /\ data.description # {}
    /\ data.price # {}
    /\ data.condition # {}
    /\ data.images # {}
    /\ listingSchemaPartialOk(data)

\* listingSchema as a passthrough object: the status key of the body survives
\* the parse.
listingSchemaParseKeepStatus(data) ==
    [title |-> data.title, description |-> data.description, price |-> data.price,
     condition |-> data.condition, images |-> data.images, status |-> data.status]

\* listingSchema as a passthrough object: the keys the schema does not name
\* survive the parse.
listingSchemaParsePassthrough(data) ==
    [title |-> data.title, description |-> data.description, price |-> data.price,
     condition |-> data.condition, images |-> data.images, sellerId |-> data.sellerId,
     status |-> data.status]

listingSchemaParse(data) ==
    [title |-> data.title, description |-> data.description, price |-> data.price,
     condition |-> data.condition, images |-> data.images]

offerSchemaOk(data) ==
    /\ data.amount # {}
    /\ \A a \in data.amount : a >= 0

offerSchemaPartialOk(data) == \A a \in data.amount : a >= 0

offerSchemaParse(data) == [amount |-> data.amount, message |-> data.message]

messageSchemaOk(data) ==
    /\ data.content # {}
    /\ \A c \in data.content : c # ""

messageSchemaParse(data) == [content |-> data.content]

\* ------------------------------------------------------------- storage
findListingById(id) == IF id \in DOMAIN listings THEN {listings[id]} ELSE {}

\* INSERT INTO "MarketplaceListing": the status column is always
\* PENDING_APPROVAL.
InsertListingRow(data) ==
    [title |-> data.title, description |-> data.description, price |-> data.price,
     sellerId |-> data.sellerId, condition |-> data.condition, images |-> data.images,
     status |-> "PENDING_APPROVAL"]

\* The SET clauses updateListing builds: one per key whose value is defined.
ListingSetClauses(data) == {k \in DOMAIN data : data[k] # {}}

\* UPDATE "MarketplaceListing" SET ... WHERE id = ...: the row after it.
UpdateListingRow(row, data) ==
    [k \in DOMAIN row |->
        IF k \in ListingSetClauses(data)
        THEN CHOOSE v \in data[k] : TRUE
        ELSE row[k]]

\* The table after updateListing's UPDATE; no UPDATE is sent when there is
\* no SET clause, and an UPDATE that matches no row changes nothing.
UpdateListingTable(id, data) ==
    IF ListingSetClauses(data) # {} /\ id \in DOMAIN listings
    THEN [listings EXCEPT ![id] = UpdateListingRow(listings[id], data)]
    ELSE listings

\* The tables without the foreign keys: no row counts as a reference.
ReferencedNever(id) == FALSE

\* The foreign keys ListingOffer.listingId and ListingMessage.listingId ->
\* MarketplaceListing.id.
Referenced(id) ==
    \/ \E o \in DOMAIN offers : offers[o].listingId = id
    \/ \E m \in DOMAIN messages : messages[m].listingId = id

\* INSERT INTO "ListingOffer": status PENDING, message `data.message || null`.
InsertOfferRow(data) ==
    [listingId |-> data.listingId,
     buyerId |-> data.buyerId,
     amount |-> data.amount,
     status |-> "PENDING",
     message |-> IF TruthyString(data.message) THEN data.message ELSE {}]

\* INSERT INTO "ListingMessage".
InsertMessageRow(data) ==
    [listingId |-> data.listingId, senderId |-> data.senderId, content |-> data.content]

OfferSetClauses(data) == {k \in DOMAIN data : data[k] # {}}

\* UPDATE "ListingOffer" SET ... WHERE id = ...: the row after it.  amount
\* is a NOT NULL number and is stored unwrapped; message stays optional.
UpdateOfferRow(row, data) ==
    [k \in DOMAIN row |->
        IF k \in OfferSetClauses(data)
        THEN (IF k = "message" THEN data[k] ELSE CHOOSE v \in data[k] : TRUE)
        ELSE row[k]]

\* ------------------------------------------------------------- requests
\* A slot holds the handler's locals that outlive an await (the actor, the
\* :id parameter, the request body) and, once it has finished, its response
\* code.  Two fields are history, not program state: valid, whether the body
\* passed the handler's schema, events, the domain events the handler has
\* emitted or returned (no statement of the controller emits or returns one),
\* bad, whether the body carried a malformed
\* value, and racing, whether, when the request arrived, it was the listing's
\* seller asking to accept a PENDING offer of a listing that was then
\* AVAILABLE.
Idle ==
    [pc |-> "idle", op |-> "none", actor |-> "none", id |-> 0,
     data |-> NoData, code |-> "none", events |-> <<>>, valid |-> TRUE, bad |-> FALSE,
     racing |-> FALSE]

\* The body carries an empty title, description or content, a negative price
\* or amount, an empty image list, or a condition that is none of NEW,
\* LIKE_NEW, GOOD and FAIR.
Malformed(data) ==
    \/ data.title = {""}
    \/ data.description = {""}
    \/ data.content = {""}
    \/ \E p \in data.price : p < 0
    \/ \E a \in data.amount : a < 0
    \/ data.images = {<<>>}
    \/ \E c \in data.condition : c \notin {"NEW", "LIKE_NEW", "GOOD", "FAIR"}

NewReq(op, actor, id, data, valid) ==
    [pc |-> "start", op |-> op, actor |-> actor, id |-> id,
     data |-> data, code |-> "none", events |-> <<>>, valid |-> valid,
     bad |-> Malformed(data), racing |-> FALSE]

Free(r) == req[r].pc = "idle"

\* The handler in slot r returns (or throws): its response is recorded.  Of
\* the request body the record keeps the status key; the rest of the body
\* is dropped with the handler's locals.
Respond(r, rq, code) ==
    req' = [req EXCEPT ![r] =
               [rq EXCEPT !.pc = "done", !.code = code,
                          !.data = [NoData EXCEPT !.status = rq.data.status]]]

Goto(r, rq, pc) ==
    req' = [req EXCEPT ![r] = [rq EXCEPT !.pc = pc]]

\* A new EventBus.  dispatch holds the locals of emit: the event and the data,
\* the index k that forEach visits next and the length len that forEach read
\* when it started; its fields start and removed are history, the array as it
\* was when emit began and the handlers an unsubscribe has removed from it
\* since.
InitBus ==
    /\ listeners = <<>>
    /\ dispatch = [on |-> FALSE, event |-> "none", data |-> "none", k |-> 1, len |-> 0,
                   start |-> <<>>, removed |-> {}]
    /\ calls = <<>>
    /\ busCall = [op |-> "none", event |-> "none", handler |-> "none"]

\* The plugin object after its constructor, in a process with no timer.
InitHost ==
    /\ InitBus
    /\ timers = <<>>
    /\ metricsInterval = {}
    /\ metrics = [totalListings |-> 0, activeListings |-> 0, totalOffers |-> 0,
                  acceptedOffers |-> 0]

Init ==
    /\ InitHost
    /\ listings = <<>>
    /\ offers = <<>>
    /\ messages = <<>>
    /\ features =
           [autoApproval |-> autoApproval, messaging |-> messaging, offers |-> offersFeature]
    /\ req = [r \in Slots |-> Idle]
    /\ payments = [l \in ListingIds |-> 0]

\* History for the claims about repeated payment notifications: how many
\* payment notifications in a row (counted up to 2) have been applied to the
\* listing since one found it PENDING_PAYMENT, with no other write of its
\* status and no delete in between.
PaymentsAfter(id) ==
    IF id \notin DOMAIN listings THEN payments
    ELSE IF listings[id].status = "PENDING_PAYMENT" THEN [payments EXCEPT ![id] = 1]
    ELSE IF payments[id] >= 1 THEN [payments EXCEPT ![id] = 2]
    ELSE payments

PaymentsReset(id) ==
    IF id \in ListingIds THEN [payments EXCEPT ![id] = 0] ELSE payments

\* ------------------------------------------------------- route guards
\* A route guard that lets every authenticated caller through.
RouteAllowsAnyRole(roles, u) == u \in Actors

\* The role checks the plugin's routes make before calling the controller.
RouteAllows(roles, u) == UserRole[u] \in roles

\* ------------------------------------------------- POST /listings
\* The INSERT is the handler's only write; the findListingById that follows
\* it only fills the response body and the response is 201 either way.
createListing(r, u, data) ==
    LET rq == NewReq("createListing", u, 0, data, listingSchemaOk(data)) IN
    /\ Free(r)
    /\ UNCHANGED <<messages, features>>
    /\ UNCHANGED hostVars
    /\ IF ~RouteAllows(canCreateListings, u)
       THEN Respond(r, rq, "FORBIDDEN") /\ UNCHANGED <<listings, offers, payments>>
       ELSE IF ~listingSchemaOk(data)
       THEN Respond(r, rq, "ZOD_ERROR") /\ UNCHANGED <<listings, offers, payments>>
       ELSE \E id \in ListingIds \ DOMAIN listings :
            LET validatedData == listingSchemaParse(data) IN
            /\ listings' = listings @@
                   (id :> InsertListingRow(
                       [title |-> CHOOSE t \in validatedData.title : TRUE,
                        description |-> CHOOSE d \in validatedData.description : TRUE,
                        price |-> CHOOSE p \in validatedData.price : TRUE,
                        condition |-> CHOOSE c \in validatedData.condition : TRUE,
                        images |-> CHOOSE i \in validatedData.images : TRUE,
                        sellerId |-> u]))
            /\ Respond(r, [rq EXCEPT !.id = id], "OK")
            /\ UNCHANGED <<offers, payments>>

\* ------------------------------------------------- PUT /listings/:id
\* updateListing letting a moderator's role stand in for ownership.
UpdateListingCheckRoleBypass(u, id, data) ==
    IF findListingById(id) = {} THEN "LISTING_NOT_FOUND"
    ELSE IF listings[id].sellerId # u /\ ~RouteAllows(canDeleteListings, u) THEN "FORBIDDEN"
    ELSE IF ~listingSchemaPartialOk(data) THEN "ZOD_ERROR"
    ELSE "OK"

\* The checks updateListing makes on the row it read.
UpdateListingCheck(u, id, data) ==
    IF findListingById(id) = {} THEN "LISTING_NOT_FOUND"
    ELSE IF listings[id].sellerId # u THEN "FORBIDDEN"
    ELSE IF ~listingSchemaPartialOk(data) THEN "ZOD_ERROR"
    ELSE "OK"

updateListing(r, u, id, data) ==
    LET rq == NewReq("updateListing", u, id, data, listingSchemaPartialOk(data))
        check == UpdateListingCheck(u, id, data) IN
    /\ Free(r)
    /\ UNCHANGED <<messages, features>>
    /\ UNCHANGED hostVars
    /\ UNCHANGED <<listings, offers, payments>>
    /\ IF check # "OK" THEN Respond(r, rq, check)
       ELSE IF ListingSetClauses(listingSchemaParse(data)) = {}
       THEN Goto(r, rq, "ul_find")
       ELSE Goto(r, rq, "ul_update")

updateListingWrite(r) ==
    /\ req[r].pc = "ul_update"
    /\ UNCHANGED <<messages, features>>
    /\ UNCHANGED hostVars
    /\ listings' = UpdateListingTable(req[r].id, listingSchemaParse(req[r].data))
    /\ Goto(r, req[r], "ul_find")
    /\ UNCHANGED <<offers, payments>>

\* prisma.updateListing ends by reading the row back and throws when it is
\* gone; the controller turns the throw into an error response.
updateListingRead(r) ==
    /\ req[r].pc = "ul_find"
    /\ UNCHANGED <<messages, features>>
    /\ UNCHANGED hostVars
    /\ Respond(r, req[r], IF findListingById(req[r].id) = {} THEN "ERROR" ELSE "OK")
    /\ UNCHANGED <<listings, offers, payments>>

\* ------------------------------------------------- DELETE /listings/:id
DeleteListingCheck(u, id) ==
    IF ~RouteAllows(canDeleteListings, u) THEN "FORBIDDEN"
    ELSE IF findListingById(id) = {} THEN "LISTING_NOT_FOUND"
    ELSE IF listings[id].sellerId # u THEN "FORBIDDEN"
    ELSE "OK"

deleteListing(r, u, id) ==
    LET rq == NewReq("deleteListing", u, id, NoData, TRUE)
        check == DeleteListingCheck(u, id) IN
    /\ Free(r)
    /\ UNCHANGED <<messages, features>>
    /\ UNCHANGED hostVars
    /\ UNCHANGED <<listings, offers, payments>>
    /\ IF check # "OK" THEN Respond(r, rq, check) ELSE Goto(r, rq, "dl_delete")

\* DELETE FROM "MarketplaceListing": throws when no row is returned, and the
\* foreign key of ListingOffer refuses the delete of a referenced listing.
deleteListingWrite(r) ==
    LET id == req[r].id IN
    /\ req[r].pc = "dl_delete"
    /\ UNCHANGED <<messages, features>>
    /\ UNCHANGED hostVars
    /\ UNCHANGED offers
    /\ IF id \notin DOMAIN listings \/ Referenced(id)
       THEN Respond(r, req[r], "ERROR") /\ UNCHANGED <<listings, payments>>
       ELSE /\ listings' = [i \in DOMAIN listings \ {id} |-> listings[i]]
            /\ payments' = PaymentsReset(id)
            /\ Respond(r, req[r], "OK")

\* ------------------------------------------------- POST /listings/:listingId/offers
\* createOffer without its status check.
CreateOfferCheckNoStatus(u, listingId, data) ==
    IF ~RouteAllows(canMakeOffers, u) THEN "FORBIDDEN"
    ELSE IF findListingById(listingId) = {} THEN "LISTING_NOT_FOUND"
    ELSE IF listings[listingId].sellerId = u THEN "SELF_OFFER"
    ELSE IF ~offerSchemaOk(data) THEN "ZOD_ERROR"
    ELSE "OK"

\* createOffer validating the body before it compares buyer and seller.
CreateOfferCheckValidateFirst(u, listingId, data) ==
    IF ~RouteAllows(canMakeOffers, u) THEN "FORBIDDEN"
    ELSE IF findListingById(listingId) = {} THEN "LISTING_NOT_FOUND"
    ELSE IF listings[listingId].status # "AVAILABLE" THEN "LISTING_UNAVAILABLE"
    ELSE IF ~offerSchemaOk(data) THEN "ZOD_ERROR"
    ELSE IF listings[listingId].sellerId = u THEN "SELF_OFFER"
    ELSE "OK"

\* createOffer without its comparison of buyer and seller.
CreateOfferCheckNoSelf(u, listingId, data) ==
    IF ~RouteAllows(canMakeOffers, u) THEN "FORBIDDEN"
    ELSE IF findListingById(listingId) = {} THEN "LISTING_NOT_FOUND"
    ELSE IF listings[listingId].status # "AVAILABLE" THEN "LISTING_UNAVAILABLE"
    ELSE IF ~offerSchemaOk(data) THEN "ZOD_ERROR"
    ELSE "OK"

\* The checks createOffer makes, in the order the code makes them.
CreateOfferCheck(u, listingId, data) ==
    IF ~RouteAllows(canMakeOffers, u) THEN "FORBIDDEN"
    ELSE IF findListingById(listingId) = {} THEN "LISTING_NOT_FOUND"
    ELSE IF listings[listingId].status # "AVAILABLE" THEN "LISTING_UNAVAILABLE"
    ELSE IF listings[listingId].sellerId = u THEN "SELF_OFFER"
    ELSE IF ~offerSchemaOk(data) THEN "ZOD_ERROR"
    ELSE "OK"

\* Offers being inserted by handlers that passed their checks.
PendingInserts == Cardinality({s \in Slots : req[s].pc = "co_insert"})

createOffer(r, u, listingId, data) ==
    LET rq == NewReq("createOffer", u, listingId, data, offerSchemaOk(data))
        check == CreateOfferCheck(u, listingId, data) IN
    /\ Free(r)
    /\ UNCHANGED <<messages, features>>
    /\ UNCHANGED hostVars
    /\ UNCHANGED <<listings, offers, payments>>
    /\ IF check # "OK" THEN Respond(r, rq, check)
       ELSE /\ Cardinality(DOMAIN offers) + PendingInserts < MaxOffers
            /\ Goto(r, rq, "co_insert")

createOfferWrite(r) ==
    LET rq == req[r]
        validatedData == offerSchemaParse(rq.data) IN
    /\ rq.pc = "co_insert"
    /\ UNCHANGED <<messages, features>>
    /\ UNCHANGED hostVars
    /\ UNCHANGED <<listings, payments>>
    /\ IF rq.id \notin DOMAIN listings
       THEN Respond(r, rq, "ERROR") /\ UNCHANGED offers
       ELSE \E oid \in OfferIds \ DOMAIN offers :
            /\ offers' = offers @@
                   (oid :> InsertOfferRow(
                       [listingId |-> rq.id,
                        buyerId |-> rq.actor,
                        amount |-> CHOOSE a \in validatedData.amount : TRUE,
                        message |-> validatedData.message]))
            /\ Respond(r, rq, "OK")

\* ------------------------------------------------- PUT /offers/:id
\* The checks updateOffer makes.  It reads the listing whose id is the :id
\* parameter of the route, which is the id of the offer.
UpdateOfferCheck(u, id, data) ==
    IF findListingById(id) = {} THEN "LISTING_NOT_FOUND"
    ELSE IF data.status # {} /\ listings[id].sellerId # u THEN "FORBIDDEN"
    ELSE IF (TruthyNumber(data.amount) \/ TruthyString(data.message)) /\ listings[id].sellerId = u
    THEN "FORBIDDEN"
    ELSE IF ~offerSchemaPartialOk(data) THEN "ZOD_ERROR"
    ELSE IF OfferSetClauses(offerSchemaParse(data)) = {} THEN "ERROR"
    ELSE "OK"

\* History for the claims about racing accepts (see Idle).
Racing(u, id, data) ==
    /\ data.status = {"ACCEPTED"}
    /\ id \in DOMAIN offers
    /\ offers[id].status = "PENDING"
    /\ offers[id].listingId \in DOMAIN listings
    /\ listings[offers[id].listingId].status = "AVAILABLE"
    /\ listings[offers[id].listingId].sellerId = u

\* prisma.updateOffer joins its SET clauses before it sends anything, and
\* joining none throws: a body that validates to {} ends in an error without
\* a storage call.
updateOffer(r, u, id, data) ==
    LET rq == [NewReq("updateOffer", u, id, data, offerSchemaPartialOk(data))
                  EXCEPT !.racing = Racing(u, id, data)]
        check == UpdateOfferCheck(u, id, data) IN
    /\ Free(r)
    /\ UNCHANGED <<messages, features>>
    /\ UNCHANGED hostVars
    /\ UNCHANGED <<listings, offers, payments>>
    /\ IF check # "OK" THEN Respond(r, rq, check) ELSE Goto(r, rq, "uo_update")

\* UPDATE "ListingOffer" ... RETURNING *: throws when no row is returned.
updateOfferWrite(r) ==
    LET rq == req[r] IN
    /\ rq.pc = "uo_update"
    /\ UNCHANGED <<messages, features>>
    /\ UNCHANGED hostVars
    /\ UNCHANGED <<listings, payments>>
    /\ IF rq.id \notin DOMAIN offers
       THEN Respond(r, rq, "ERROR") /\ UNCHANGED offers
       ELSE /\ offers' = [offers EXCEPT
                   ![rq.id] = UpdateOfferRow(offers[rq.id], offerSchemaParse(rq.data))]
            /\ IF rq.data.status = {"ACCEPTED"}
               THEN Goto(r, rq, "uo_listing")
               ELSE Respond(r, rq, "OK")

\* The patch updateOffer sends for the listing once the offer is written.
AcceptedPatch == [status |-> {"PENDING_PAYMENT"}]

updateOfferListingWrite(r) ==
    /\ req[r].pc = "uo_listing"
    /\ UNCHANGED <<messages, features>>
    /\ UNCHANGED hostVars
    /\ listings' = UpdateListingTable(req[r].id, AcceptedPatch)
    /\ payments' = PaymentsReset(req[r].id)
    /\ Goto(r, req[r], "uo_find")
    /\ UNCHANGED offers

updateOfferListingRead(r) ==
    /\ req[r].pc = "uo_find"
    /\ UNCHANGED <<messages, features>>
    /\ UNCHANGED hostVars
    /\ Respond(r, req[r], IF findListingById(req[r].id) = {} THEN "ERROR" ELSE "OK")
    /\ UNCHANGED <<listings, offers, payments>>

\* ------------------------------------------------- POST /listings/:listingId/messages
\* The checks createMessage makes; its route checks no role.
CreateMessageCheck(listingId, data) ==
    IF findListingById(listingId) = {} THEN "LISTING_NOT_FOUND"
    ELSE IF ~messageSchemaOk(data) THEN "ZOD_ERROR"
    ELSE "OK"

\* Messages being inserted by handlers that passed their checks.
PendingMessages == Cardinality({s \in Slots : req[s].pc = "cm_insert"})

createMessage(r, u, listingId, data) ==
    LET rq == NewReq("createMessage", u, listingId, data, messageSchemaOk(data))
        check == CreateMessageCheck(listingId, data) IN
    /\ Free(r)
    /\ UNCHANGED <<listings, offers, messages, features, payments>>
    /\ UNCHANGED hostVars
    /\ IF check # "OK" THEN Respond(r, rq, check)
       ELSE /\ Cardinality(DOMAIN messages) + PendingMessages < MaxMessages
            /\ Goto(r, rq, "cm_insert")

\* The foreign key of ListingMessage refuses a message on a listing that is
\* gone.
createMessageWrite(r) ==
    LET rq == req[r]
        validatedData == messageSchemaParse(rq.data) IN
    /\ req[r].pc = "cm_insert"
    /\ UNCHANGED <<listings, offers, features, payments>>
    /\ UNCHANGED hostVars
    /\ IF rq.id \notin DOMAIN listings
       THEN Respond(r, rq, "ERROR") /\ UNCHANGED messages
       ELSE \E mid \in MessageIds \ DOMAIN messages :
            /\ messages' = messages @@
                   (mid :> InsertMessageRow(
                       [listingId |-> rq.id,
                        senderId |-> rq.actor,
                        content |-> CHOOSE c \in validatedData.content : TRUE]))
            /\ Respond(r, rq, "OK")

\* ------------------------------------------------- POST /listings/:id/approve
\* The route exists when autoApproval is off; it checks the role and calls
\* handleListingApproved, whose first storage call is the UPDATE.
ApprovedPatch == [status |-> {"AVAILABLE"}]

handleListingApproved(r, u, id) ==
    LET rq == NewReq("approve", u, id, NoData, TRUE) IN
    /\ Free(r)
    /\ UNCHANGED <<messages, features>>
    /\ UNCHANGED hostVars
    /\ ~features.autoApproval
    /\ UNCHANGED offers
    /\ IF ~RouteAllows(canApproveListings, u)
       THEN Respond(r, rq, "FORBIDDEN") /\ UNCHANGED <<listings, payments>>
       ELSE /\ listings' = UpdateListingTable(id, ApprovedPatch)
            /\ payments' = PaymentsReset(id)
            /\ Goto(r, rq, "ap_find")

\* The handler rethrows what prisma.updateListing throws.
handleListingApprovedRead(r) ==
    /\ req[r].pc = "ap_find"
    /\ UNCHANGED <<messages, features>>
    /\ UNCHANGED hostVars
    /\ Respond(r, req[r], IF findListingById(req[r].id) = {} THEN "THROWN" ELSE "OK")
    /\ UNCHANGED <<listings, offers, payments>>

\* ------------------------------------------------- event payment.completed
\* handlePaymentCompleted left with the status of the handler it was copied
\* from.
PaymentPatchCopied == [status |-> {"AVAILABLE"}]

PaymentPatch == [status |-> {"SOLD"}]

handlePaymentCompleted(r, id) ==
    LET rq == NewReq("payment", "none", id, NoData, TRUE) IN
    /\ Free(r)
    /\ UNCHANGED <<messages, features>>
    /\ UNCHANGED hostVars
    /\ listings' = UpdateListingTable(id, PaymentPatch)
    /\ payments' = PaymentsAfter(id)
    /\ Goto(r, rq, "pc_find")
    /\ UNCHANGED offers

handlePaymentCompletedRead(r) ==
    /\ req[r].pc = "pc_find"
    /\ UNCHANGED <<messages, features>>
    /\ UNCHANGED hostVars
    /\ Respond(r, req[r], IF findListingById(req[r].id) = {} THEN "THROWN" ELSE "OK")
    /\ UNCHANGED <<listings, offers, payments>>

\* ------------------------------------------------- the response leaves
\* successResponse / errorResponse (or the rethrow) hands the result to the
\* caller and the handler's activation is gone.
deliver(r) ==
    /\ req[r].pc = "done"
    /\ UNCHANGED <<messages, features>>
    /\ UNCHANGED hostVars
    /\ req' = [req EXCEPT ![r] = Idle]
    /\ UNCHANGED <<listings, offers, payments>>

\* --------------------------------------------------------- specifications
\* Bodies of POST /listings that differ in their price alone.
ListingBodies ==
    {[NoData EXCEPT !.title = {"t"}, !.description = {"d"}, !.price = {p},
                    !.condition = {"NEW"}, !.images = {<<"i">>}] : p \in PriceInputs}

ListingPatches ==
    {[NoData EXCEPT !.price = p, !.sellerId = u, !.status = s] :
        p \in Opt(PriceInputs), u \in Opt(Users), s \in Opt(ListingStatusInputs)}

OfferBodies ==
    {[NoData EXCEPT !.amount = {a}, !.message = m] :
        a \in AmountInputs, m \in Opt(MessageInputs)}

OfferPatches ==
    {[NoData EXCEPT !.amount = a, !.message = m, !.status = s] :
        a \in Opt(AmountInputs), m \in Opt(MessageInputs), s \in Opt(StatusInputs)}

\* A request arrives in the free slot r and its handler runs to its first
\* storage call.
Arrive(r) ==
    \/ \E u \in Users, data \in ListingBodies :
           createListing(r, u, data) /\ DOMAIN listings' \subseteq 1..MaxListings
    \/ \E u \in Users, id \in Ids, data \in ListingPatches : updateListing(r, u, id, data)
    \/ \E u \in Users, id \in Ids : deleteListing(r, u, id)
    \/ \E u \in Users, id \in Ids, data \in OfferBodies : createOffer(r, u, id, data)
    \/ \E u \in Users, id \in Ids : handleListingApproved(r, u, id)
    \/ \E id \in Ids : handlePaymentCompleted(r, id)

ArriveUpdateOffer(r) ==
    \E u \in Users, id \in Ids, data \in OfferPatches : updateOffer(r, u, id, data)

\* The storage call the handler in slot r is waiting for completes and the
\* handler runs to its next one, or to its response.
Resume(r) ==
    \/ updateListingWrite(r)
    \/ updateListingRead(r)
    \/ deleteListingWrite(r)
    \/ createOfferWrite(r)
    \/ updateOfferWrite(r)
    \/ updateOfferListingWrite(r)
    \/ updateOfferListingRead(r)
    \/ handleListingApprovedRead(r)
    \/ handlePaymentCompletedRead(r)
    \/ deliver(r)

\* Requests served one at a time: each handler runs to its response before
\* the next request arrives.
Next ==
    \/ Arrive(1)
    \/ ArriveUpdateOffer(1)
    \/ Resume(1)

Spec == Init /\ [][Next]_vars

\* Racing offer updates: PUT /offers/:id requests arrive while other
\* PUT /offers/:id requests are waiting at an await, and their steps
\* interleave as the event loop runs them; every other request arrives when
\* no handler is active.  A finished handler's response is handed over before
\* the next request is read, which no storage call can observe.
Quiet(r) == \A s \in Slots \ {r} : req[s].pc = "idle"

OnlyOfferUpdates(r) ==
    \A s \in Slots \ {r} : req[s].pc # "done" /\ req[s].op \in {"none", "updateOffer"}

NextConc ==
    \E r \in Slots :
        \/ Quiet(r) /\ Arrive(r)
        \/ OnlyOfferUpdates(r) /\ ArriveUpdateOffer(r)
        \/ Resume(r)

SpecConc == Init /\ [][NextConc]_vars

\* The listing operations alone, served one at a time, with every id of
\* ListingIds available to new listings.
ArriveListings(r) ==
    \/ \E u \in Users, data \in ListingBodies : createListing(r, u, data)
    \/ \E u \in Users, id \in ListingIds, data \in ListingPatches :
           updateListing(r, u, id, data)
    \/ \E u \in Users, id \in ListingIds : deleteListing(r, u, id)
    \/ \E u \in Users, id \in ListingIds : handleListingApproved(r, u, id)
    \/ \E id \in ListingIds : handlePaymentCompleted(r, id)

ResumeListings(r) ==
    \/ updateListingWrite(r)
    \/ updateListingRead(r)
    \/ deleteListingWrite(r)
    \/ handleListingApprovedRead(r)
    \/ handlePaymentCompletedRead(r)
    \/ deliver(r)

NextListings ==
    \/ ArriveListings(1)
    \/ ResumeListings(1)

SpecListings == Init /\ [][NextListings]_vars

\* Messages on listings, served one at a time.
MessageBodies == {[NoData EXCEPT !.content = c] : c \in Opt(ContentInputs)}

ArriveMessages(r) ==
    \/ \E u \in Users, data \in ListingBodies :
           createListing(r, u, data) /\ DOMAIN listings' \subseteq 1..MaxListings
    \/ \E u \in Users, id \in ListingIds : deleteListing(r, u, id)
    \/ \E u \in Users, id \in ListingIds, data \in MessageBodies :
           createMessage(r, u, id, data)

ResumeMessages(r) ==
    \/ deleteListingWrite(r)
    \/ createMessageWrite(r)
    \/ deliver(r)

NextMessages ==
    \/ ArriveMessages(1)
    \/ ResumeMessages(1)

SpecMessages == Init /\ [][NextMessages]_vars

\* The plugin configured with features.autoApproval = true: getRoutes does
\* not register the approve route.
InitAuto ==
    /\ InitHost
    /\ listings = <<>>
    /\ offers = <<>>
    /\ messages = <<>>
    /\ features = [autoApproval |-> TRUE, messaging |-> messaging, offers |-> offersFeature]
    /\ req = [r \in Slots |-> Idle]
    /\ payments = [l \in ListingIds |-> 0]

ArriveAuto(r) ==
    \/ \E u \in Users, data \in ListingBodies :
           createListing(r, u, data) /\ DOMAIN listings' \subseteq 1..MaxListings
    \/ \E u \in Users, id \in ListingIds, data \in ListingPatches :
           updateListing(r, u, id, data)
    \/ \E u \in Users, id \in ListingIds : deleteListing(r, u, id)
    \/ \E u \in Users, id \in ListingIds, data \in OfferBodies :
           createOffer(r, u, id, data)
    \/ \E id \in ListingIds : handlePaymentCompleted(r, id)

ResumeAuto(r) ==
    \/ updateListingWrite(r)
    \/ updateListingRead(r)
    \/ deleteListingWrite(r)
    \/ handlePaymentCompletedRead(r)
    \/ deliver(r)

NextAuto ==
    \/ ArriveAuto(1)
    \/ ResumeAuto(1)

SpecAuto == InitAuto /\ [][NextAuto]_vars

\* The role-guarded routes (POST /listings, POST /listings/:listingId/offers,
\* POST /listings/:id/approve), called by every actor and served one at a
\* time.
ArriveRoles(r) ==
    \/ \E u \in Actors, data \in ListingBodies :
           createListing(r, u, data) /\ DOMAIN listings' \subseteq 1..MaxListings
    \/ \E u \in Actors, id \in ListingIds, data \in OfferBodies :
           createOffer(r, u, id, data)
    \/ \E u \in Actors, id \in ListingIds : handleListingApproved(r, u, id)

ResumeRoles(r) ==
    \/ createOfferWrite(r)
    \/ handleListingApprovedRead(r)
    \/ deliver(r)

NextRoles ==
    \/ ArriveRoles(1)
    \/ ResumeRoles(1)

SpecRoles == Init /\ [][NextRoles]_vars

\* The plugin under every configuration of its features section: listings
\* are created and approved, offers and messages are sent.
InitFeatures ==
    /\ InitHost
    /\ listings = <<>>
    /\ offers = <<>>
    /\ messages = <<>>
    /\ features \in [autoApproval : BOOLEAN, messaging : BOOLEAN, offers : BOOLEAN]
    /\ req = [r \in Slots |-> Idle]
    /\ payments = [l \in ListingIds |-> 0]

ArriveFeatures(r) ==
    \/ \E u \in Users, data \in ListingBodies :
           createListing(r, u, data) /\ DOMAIN listings' \subseteq 1..MaxListings
    \/ \E u \in Users, id \in ListingIds : handleListingApproved(r, u, id)
    \/ \E u \in Users, id \in ListingIds, data \in OfferBodies :
           createOffer(r, u, id, data)
    \/ \E u \in Users, id \in ListingIds, data \in MessageBodies :
           createMessage(r, u, id, data)

ResumeFeatures(r) ==
    \/ handleListingApprovedRead(r)
    \/ createOfferWrite(r)
    \/ createMessageWrite(r)
    \/ deliver(r)

NextFeatures ==
    \/ ArriveFeatures(1)
    \/ ResumeFeatures(1)

SpecFeatures == InitFeatures /\ [][NextFeatures]_vars

\* Offers racing with the handlers that move a listing out of AVAILABLE:
\* requests arrive while other handlers are waiting at an await, and the
\* steps of the NReq handlers interleave as the event loop runs them.
\* The accept requests that reach the storage: a status with a falsy amount.
AcceptBodies == {[NoData EXCEPT !.status = {"ACCEPTED"}, !.amount = {0}]}

ArriveRace(r) ==
    \/ \E u \in Users, data \in ListingBodies :
           createListing(r, u, data) /\ DOMAIN listings' \subseteq 1..MaxListings
    \/ \E u \in Users, id \in ListingIds : handleListingApproved(r, u, id)
    \/ \E u \in Users, id \in ListingIds, data \in OfferBodies :
           createOffer(r, u, id, data)
    \/ \E u \in Users, id \in OfferIds, data \in AcceptBodies : updateOffer(r, u, id, data)
    \/ \E u \in Users, id \in ListingIds : deleteListing(r, u, id)
    \/ \E id \in ListingIds : handlePaymentCompleted(r, id)

ResumeRace(r) ==
    \/ handleListingApprovedRead(r)
    \/ createOfferWrite(r)
    \/ updateOfferWrite(r)
    \/ updateOfferListingWrite(r)
    \/ updateOfferListingRead(r)
    \/ deleteListingWrite(r)
    \/ handlePaymentCompletedRead(r)
    \/ deliver(r)

NextRace ==
    \E r \in Slots :
        \/ ArriveRace(r)
        \/ ResumeRace(r)

SpecRace == Init /\ [][NextRace]_vars

\* Bodies of POST /listings with every combination of well-formed and
\* malformed values.  Listings are created and approved, offers and messages
\* are sent, one request at a time.
ListingPayloads ==
    {[NoData EXCEPT !.title = {t}, !.description = {d}, !.price = {p},
                    !.condition = {c}, !.images = {i}] :
        t \in TitleInputs, d \in DescriptionInputs, p \in PriceInputs,
        c \in ConditionInputs, i \in ImageLists}

ArriveValidation(r) ==
    \/ \E u \in Users, data \in ListingPayloads :
           createListing(r, u, data) /\ DOMAIN listings' \subseteq 1..MaxListings
    \/ \E u \in Users, id \in ListingIds : handleListingApproved(r, u, id)
    \/ \E u \in Users, id \in ListingIds, data \in OfferBodies :
           createOffer(r, u, id, data)
    \/ \E u \in Users, id \in ListingIds, data \in MessageBodies :
           createMessage(r, u, id, data)

ResumeValidation(r) ==
    \/ handleListingApprovedRead(r)
    \/ createOfferWrite(r)
    \/ createMessageWrite(r)
    \/ deliver(r)

NextValidation ==
    \/ ArriveValidation(1)
    \/ ResumeValidation(1)

SpecValidation == Init /\ [][NextValidation]_vars

\* Deletes racing with offers and messages: requests arrive while other
\* handlers are waiting at an await, and the steps of the NReq handlers
\* interleave as the event loop runs them.
IntegrityOfferBodies == {[NoData EXCEPT !.amount = {1}]}

IntegrityMessageBodies == {[NoData EXCEPT !.content = {"c"}]}

ArriveIntegrity(r) ==
    \/ \E u \in Users, data \in ListingBodies :
           createListing(r, u, data) /\ DOMAIN listings' \subseteq 1..MaxListings
    \/ \E u \in Users, id \in ListingIds : handleListingApproved(r, u, id)
    \/ \E u \in Users, id \in ListingIds, data \in IntegrityOfferBodies :
           createOffer(r, u, id, data)
    \/ \E u \in Users, id \in ListingIds, data \in IntegrityMessageBodies :
           createMessage(r, u, id, data)
    \/ \E u \in Users, id \in ListingIds : deleteListing(r, u, id)

ResumeIntegrity(r) ==
    \/ handleListingApprovedRead(r)
    \/ createOfferWrite(r)
    \/ createMessageWrite(r)
    \/ deleteListingWrite(r)
    \/ deliver(r)

NextIntegrity ==
    \E r \in Slots :
        \/ ArriveIntegrity(r)
        \/ ResumeIntegrity(r)

SpecIntegrity == Init /\ [][NextIntegrity]_vars

\* ------------------------------------------------- plugin lifecycle
\* MarketplacePlugin (MarketplacePlugin.ts): init, onStart and onStop as the
\* host calls them, in any order and any number of times, and the ticks of
\* the timers.
ActiveTimers == {h \in DOMAIN timers : timers[h]}

\* setInterval returns a new handle; the handle is stored in
\* this.metricsInterval whatever it held before.
startMetricsTracking ==
    /\ Len(timers) < MaxTimers
    /\ timers' = Append(timers, TRUE)
    /\ metricsInterval' = {Len(timers) + 1}

\* init validates the configuration, registers the routes and starts the
\* metrics tracking.
init ==
    /\ startMetricsTracking
    /\ UNCHANGED metrics
    /\ UNCHANGED <<marketVars, busVars>>

onStart ==
    /\ startMetricsTracking
    /\ UNCHANGED metrics
    /\ UNCHANGED <<marketVars, busVars>>

\* onStop clears the timer whose handle this.metricsInterval holds, and
\* leaves the handle in the field.
onStop ==
    /\ timers' = [h \in DOMAIN timers |-> timers[h] /\ h \notin metricsInterval]
    /\ UNCHANGED <<metricsInterval, metrics>>
    /\ UNCHANGED <<marketVars, busVars>>

\* A tick of an active timer: updateMetrics counts the rows and stores the
\* counts.
updateMetrics ==
    /\ ActiveTimers # {}
    /\ metrics' =
           [totalListings |-> Cardinality(DOMAIN listings),
            activeListings |->
                Cardinality({l \in DOMAIN listings : listings[l].status = "AVAILABLE"}),
            totalOffers |-> Cardinality(DOMAIN offers),
            acceptedOffers |->
                Cardinality({o \in DOMAIN offers : offers[o].status = "ACCEPTED"})]
    /\ UNCHANGED <<timers, metricsInterval>>
    /\ UNCHANGED <<marketVars, busVars>>

\* The requests that change what updateMetrics counts, served one at a time
\* while the host drives the plugin's lifecycle.
ArrivePlugin(r) ==
    \/ \E u \in Users, data \in ListingBodies :
           createListing(r, u, data) /\ DOMAIN listings' \subseteq 1..MaxListings
    \/ \E u \in Users, id \in ListingIds : handleListingApproved(r, u, id)

ResumePlugin(r) ==
    \/ handleListingApprovedRead(r)
    \/ deliver(r)

NextPlugin ==
    \/ init
    \/ onStart
    \/ onStop
    \/ updateMetrics
    \/ ArrivePlugin(1)
    \/ ResumePlugin(1)

SpecPlugin == Init /\ [][NextPlugin]_vars

\* ------------------------------------------------- EventBus
\* The EventBus class (core/events/EventBus.ts).  Handlers are functions; a
\* handler, when it is called, returns at once or first calls subscribe or
\* unsubscribe on the bus.
Events == {"e1", "e2"}
Handlers == {"h1", "h2"}
DataInputs == {"d1", "d2"}

\* indexOf: the first index of h in arr, 0 when there is none.
IndexOf(arr, h) ==
    IF \E i \in DOMAIN arr : arr[i] = h
    THEN CHOOSE i \in DOMAIN arr : arr[i] = h /\ \A j \in 1..(i - 1) : arr[j] # h
    ELSE 0

\* splice(index, 1).
Splice(arr, index) ==
    [i \in 1..(Len(arr) - 1) |-> IF i < index THEN arr[i] ELSE arr[i + 1]]

\* An unsubscribe that drops every registration of h.
UnsubscribedAll(arr, h) == SelectSeq(arr, LAMBDA x : x # h)

\* The array of an event after unsubscribe: without the first registration of
\* h, or as it was when h is not in it.
Unsubscribed(arr, h) ==
    IF IndexOf(arr, h) = 0 THEN arr ELSE Splice(arr, IndexOf(arr, h))

\* The listeners map after subscribe(e, h).
AfterSubscribe(e, h) ==
    IF e \in DOMAIN listeners
    THEN [listeners EXCEPT ![e] = Append(@, h)]
    ELSE listeners @@ (e :> <<h>>)

\* The listeners map after unsubscribe(e, h).
AfterUnsubscribe(e, h) ==
    IF e \in DOMAIN listeners
    THEN [listeners EXCEPT ![e] = Unsubscribed(@, h)]
    ELSE listeners

listenerCount(e) == IF e \in DOMAIN listeners THEN Len(listeners[e]) ELSE 0

\* Room for one more handler of e in the model.
CanSubscribe(e) == listenerCount(e) < MaxListeners

subscribe(e, h) ==
    /\ ~dispatch.on
    /\ CanSubscribe(e)
    /\ listeners' = AfterSubscribe(e, h)
    /\ busCall' = [op |-> "subscribe", event |-> e, handler |-> h]
    /\ UNCHANGED <<dispatch, calls>>
    /\ UNCHANGED <<marketVars, pluginVars>>

unsubscribe(e, h) ==
    /\ ~dispatch.on
    /\ listeners' = AfterUnsubscribe(e, h)
    /\ busCall' = [op |-> "unsubscribe", event |-> e, handler |-> h]
    /\ UNCHANGED <<dispatch, calls>>
    /\ UNCHANGED <<marketVars, pluginVars>>

\* clear(event): the key of the event is deleted.
clear(e) ==
    /\ ~dispatch.on
    /\ listeners' = [x \in DOMAIN listeners \ {e} |-> listeners[x]]
    /\ busCall' = [op |-> "clear", event |-> e, handler |-> "none"]
    /\ UNCHANGED <<dispatch, calls>>
    /\ UNCHANGED <<marketVars, pluginVars>>

\* clear(): every key is deleted.
clearAll ==
    /\ ~dispatch.on
    /\ listeners' = <<>>
    /\ busCall' = [op |-> "clearAll", event |-> "none", handler |-> "none"]
    /\ UNCHANGED <<dispatch, calls>>
    /\ UNCHANGED <<marketVars, pluginVars>>

\* emit(e, d) up to the first handler call: it reads the array of e and
\* forEach reads the array's length; with no array, or an empty one, emit
\* returns.
emit(e, d) ==
    /\ ~dispatch.on
    /\ dispatch' =
           [on |-> listenerCount(e) > 0, event |-> e, data |-> d, k |-> 1,
            len |-> listenerCount(e),
            start |-> IF e \in DOMAIN listeners THEN listeners[e] ELSE <<>>,
            removed |-> {}]
    /\ calls' = <<>>
    /\ UNCHANGED <<listeners, busCall>>
    /\ UNCHANGED <<marketVars, pluginVars>>

\* One iteration of forEach: index k is visited when the array still has it,
\* and the handler found there now is called with the data; forEach ends
\* after the index len - 1 that it computed when it started.
emitCall ==
    LET e == dispatch.event
        k == dispatch.k IN
    /\ dispatch.on
    /\ IF k <= Len(listeners[e])
       THEN /\ calls' = Append(calls, <<listeners[e][k], dispatch.data>>)
            /\ \E body \in {"return", "unsubscribe", "subscribe"}, x \in Events, g \in Handlers :
                   \/ /\ body = "return"
                      /\ UNCHANGED <<listeners, busCall>>
                      /\ dispatch' = [dispatch EXCEPT !.k = k + 1, !.on = k + 1 <= dispatch.len]
                   \/ /\ body = "unsubscribe"
                      /\ listeners' = AfterUnsubscribe(x, g)
                      /\ busCall' = [op |-> "unsubscribe", event |-> x, handler |-> g]
                      /\ dispatch' =
                             [dispatch EXCEPT
                                 !.k = k + 1, !.on = k + 1 <= dispatch.len,
                                 !.removed =
                                     IF x = e /\ IndexOf(listeners[e], g) # 0
                                     THEN @ \cup {g} ELSE @]
                   \/ /\ body = "subscribe"
                      /\ CanSubscribe(x)
                      /\ listeners' = AfterSubscribe(x, g)
                      /\ busCall' = [op |-> "subscribe", event |-> x, handler |-> g]
                      /\ dispatch' = [dispatch EXCEPT !.k = k + 1, !.on = k + 1 <= dispatch.len]
       ELSE /\ dispatch' = [dispatch EXCEPT !.k = k + 1, !.on = k + 1 <= dispatch.len]
            /\ UNCHANGED <<listeners, calls, busCall>>
    /\ UNCHANGED <<marketVars, pluginVars>>

NextBus ==
    \/ \E e \in Events, h \in Handlers : subscribe(e, h)
    \/ \E e \in Events, h \in Handlers : unsubscribe(e, h)
    \/ \E e \in Events : clear(e)
    \/ clearAll
    \/ \E e \in Events, d \in DataInputs : emit(e, d)
    \/ emitCall

SpecBus == Init /\ [][NextBus]_vars

\* ================================================================ claims
\* The request in slot r has just arrived: this step ran the handler of op
\* from the request to its first storage call (or to an early response).
Arrived(r, op) == req[r].pc = "idle" /\ req'[r].pc # "idle" /\ req'[r].op = op

Finished(r, op) == req[r].pc = "done" /\ req[r].op = op

IsAccept(rq) == rq.op = "updateOffer" /\ rq.data.status = {"ACCEPTED"}

OffersOf(l) == {o \in DOMAIN offers : offers[o].listingId = l}

\* C1: after updateOffer with status ACCEPTED succeeds for offer A of listing
\* L, L is PENDING_PAYMENT, A is ACCEPTED and no other offer of L is PENDING.
C1_AcceptPostcondition ==
    \A r \in Slots :
        (Finished(r, "updateOffer") /\ IsAccept(req[r]) /\ req[r].code = "OK") =>
            /\ req[r].id \in DOMAIN offers
            /\ offers[req[r].id].status = "ACCEPTED"
            /\ offers[req[r].id].listingId \in DOMAIN listings
            /\ listings[offers[req[r].id].listingId].status = "PENDING_PAYMENT"
            /\ \A o \in OffersOf(offers[req[r].id].listingId) \ {req[r].id} :
                   offers[o].status # "PENDING"

\* C2: of two accept requests by the seller on different PENDING offers of
\* one AVAILABLE listing, whatever their interleaving, exactly one succeeds,
\* the other fails with InvalidTransition, and at most one offer of the
\* listing is ACCEPTED.
C2_ExactlyOneAcceptWins ==
    \A r1, r2 \in Slots :
        ( /\ r1 # r2
          /\ Finished(r1, "updateOffer") /\ req[r1].racing
          /\ Finished(r2, "updateOffer") /\ req[r2].racing
          /\ req[r1].id # req[r2].id
          /\ offers[req[r1].id].listingId = offers[req[r2].id].listingId ) =>
            /\ (req[r1].code = "OK") # (req[r2].code = "OK")
            /\ req[r1].code \in {"OK", "INVALID_TRANSITION"}
            /\ req[r2].code \in {"OK", "INVALID_TRANSITION"}
            /\ Cardinality({o \in OffersOf(offers[req[r1].id].listingId) :
                               offers[o].status = "ACCEPTED"}) <= 1

\* C3: accept is atomic across the offer and the listing: a step of an accept
\* request that writes to storage leaves the offer ACCEPTED and its listing
\* out of AVAILABLE, so that no state shows one write without the other.
C3_AcceptAtomic ==
    [][\A r \in Slots :
        ( /\ IsAccept(req[r])
          /\ req[r].pc \notin {"idle", "done"}
          /\ req'[r] # req[r]
          /\ (offers' # offers \/ listings' # listings) ) =>
            /\ req[r].id \in DOMAIN offers'
            /\ offers'[req[r].id].status = "ACCEPTED"
            /\ offers'[req[r].id].listingId \in DOMAIN listings'
            /\ listings'[offers'[req[r].id].listingId].status # "AVAILABLE"]_vars

\* C4: createOffer on an existing listing whose status is not AVAILABLE ends
\* at once with LISTING_UNAVAILABLE, inserts no offer and changes no row.
C4_CreateOfferUnavailable ==
    [][\A r \in Slots :
        ( /\ Arrived(r, "createOffer")
          /\ req'[r].id \in DOMAIN listings
          /\ listings[req'[r].id].status # "AVAILABLE" ) =>
            /\ req'[r].pc = "done"
            /\ req'[r].code = "LISTING_UNAVAILABLE"
            /\ offers' = offers
            /\ listings' = listings]_vars

C4_Witness ==
    \E r \in Slots :
        /\ Finished(r, "createOffer")
        /\ req[r].code = "LISTING_UNAVAILABLE"
        /\ req[r].id \in DOMAIN listings
        /\ listings[req[r].id].status # "AVAILABLE"
        /\ listings[req[r].id].sellerId # req[r].actor
        /\ req[r].valid

\* C5 as claimed: createOffer by the listing's seller ends with SELF_OFFER
\* whatever the listing's status and whatever the payload, and inserts
\* nothing.
C5_SelfOfferAnyStatus ==
    [][\A r \in Slots :
        ( /\ Arrived(r, "createOffer")
          /\ req'[r].id \in DOMAIN listings
          /\ listings[req'[r].id].sellerId = req'[r].actor ) =>
            /\ req'[r].pc = "done"
            /\ req'[r].code = "SELF_OFFER"
            /\ offers' = offers]_vars

\* C5 as amended: createOffer by the listing's seller always fails and inserts
\* nothing; it fails with SELF_OFFER when the listing is AVAILABLE, whatever
\* the payload, and with LISTING_UNAVAILABLE when it is not.
C5_SelfOfferWhenAvailable ==
    [][\A r \in Slots :
        ( /\ Arrived(r, "createOffer")
          /\ req'[r].id \in DOMAIN listings
          /\ listings[req'[r].id].sellerId = req'[r].actor ) =>
            /\ req'[r].pc = "done"
            /\ req'[r].code =
                  IF listings[req'[r].id].status = "AVAILABLE"
                  THEN "SELF_OFFER" ELSE "LISTING_UNAVAILABLE"
            /\ offers' = offers]_vars

C5_Witness ==
    \E r \in Slots :
        /\ Finished(r, "createOffer")
        /\ req[r].code = "SELF_OFFER"
        /\ ~req[r].valid
        /\ req[r].id \in DOMAIN listings
        /\ listings[req[r].id].sellerId = req[r].actor
        /\ listings[req[r].id].status = "AVAILABLE"

\* C6: no stored offer has the seller of its listing as its buyer.
C6_NoSelfOffer ==
    \A o \in DOMAIN offers :
        offers[o].listingId \in DOMAIN listings =>
            offers[o].buyerId # listings[offers[o].listingId].sellerId

\* An offer is stored, and updateListing or updateOffer has just written
\* while it was.
C6_Witness ==
    /\ DOMAIN offers # {}
    /\ \E r \in Slots :
        /\ req[r].code = "OK"
        /\ \/ Finished(r, "updateListing") /\ req[r].id \in DOMAIN listings
           \/ Finished(r, "updateOffer") /\ req[r].id \in DOMAIN offers

\* C7: the payment notification makes a PENDING_PAYMENT listing SOLD and
\* leaves a listing in any other status as it is.
C7_PaymentOnlyFromPendingPayment ==
    [][\A r \in Slots :
        (Arrived(r, "payment") /\ req'[r].id \in DOMAIN listings) =>
            /\ req'[r].id \in DOMAIN listings'
            /\ listings'[req'[r].id].status =
                  IF listings[req'[r].id].status = "PENDING_PAYMENT"
                  THEN "SOLD" ELSE listings[req'[r].id].status]_vars

\* C8: markSold is idempotent: after the first and after the second payment
\* notification for a listing that was PENDING_PAYMENT the listing is SOLD,
\* and neither notification raises.
C8_MarkSoldIdempotent ==
    \A r \in Slots :
        ( /\ Finished(r, "payment")
          /\ req[r].id \in ListingIds
          /\ payments[req[r].id] >= 1 ) =>
            /\ req[r].code = "OK"
            /\ req[r].id \in DOMAIN listings
            /\ listings[req[r].id].status = "SOLD"

\* The second notification in a row has been handled.
C8_Witness ==
    \E r \in Slots :
        /\ Finished(r, "payment")
        /\ req[r].id \in ListingIds
        /\ payments[req[r].id] = 2
        /\ req[r].code = "OK"
        /\ listings[req[r].id].status = "SOLD"

\* The transition graph of a listing's status.
StatusEdges ==
    {<<"DRAFT", "PENDING_APPROVAL">>, <<"PENDING_APPROVAL", "AVAILABLE">>,
     <<"AVAILABLE", "PENDING_PAYMENT">>, <<"PENDING_PAYMENT", "SOLD">>,
     <<"AVAILABLE", "CANCELLED">>, <<"AVAILABLE", "EXPIRED">>,
     <<"PENDING_APPROVAL", "CANCELLED">>, <<"PENDING_APPROVAL", "EXPIRED">>}

\* C9: every change of a listing's status follows an edge of the graph.
C9_StatusFollowsGraph ==
    [][\A l \in DOMAIN listings \cap DOMAIN listings' :
        listings'[l].status # listings[l].status =>
            <<listings[l].status, listings'[l].status>> \in StatusEdges]_vars

\* C10: a listing that is SOLD, CANCELLED or EXPIRED keeps its status.
C10_TerminalAbsorbing ==
    [][\A l \in DOMAIN listings \cap DOMAIN listings' :
        listings[l].status \in {"SOLD", "CANCELLED", "EXPIRED"} =>
            listings'[l].status = listings[l].status]_vars

\* C11: approve makes a listing AVAILABLE only from PENDING_APPROVAL; on a
\* listing in any other status it fails with InvalidTransition and leaves the
\* listing as it is.
C11_ApproveOnlyFromPendingApproval ==
    [][\A r \in Slots :
        ( /\ Arrived(r, "approve")
          /\ RouteAllows(canApproveListings, req'[r].actor)
          /\ req'[r].id \in DOMAIN listings
          /\ listings[req'[r].id].status # "PENDING_APPROVAL" ) =>
            /\ req'[r].pc = "done"
            /\ req'[r].code = "INVALID_TRANSITION"
            /\ listings' = listings]_vars

\* C12: a listing becomes PENDING_PAYMENT only from AVAILABLE and only by the
\* accept of one of its own offers; an accept by the seller while the offer's
\* listing is not AVAILABLE fails with InvalidTransition.
C12_PendingPaymentOnlyByAccept ==
    [][/\ \A l \in DOMAIN listings \cap DOMAIN listings' :
            ( /\ listings'[l].status = "PENDING_PAYMENT"
              /\ listings[l].status # "PENDING_PAYMENT" ) =>
                /\ listings[l].status = "AVAILABLE"
                /\ \E r \in Slots :
                       /\ IsAccept(req[r])
                       /\ req[r].pc = "uo_listing"
                       /\ req[r].id \in OffersOf(l)
       /\ \A r \in Slots :
            ( /\ Arrived(r, "updateOffer")
              /\ IsAccept(req'[r])
              /\ req'[r].id \in DOMAIN offers
              /\ offers[req'[r].id].listingId \in DOMAIN listings
              /\ listings[offers[req'[r].id].listingId].sellerId = req'[r].actor
              /\ listings[offers[req'[r].id].listingId].status # "AVAILABLE" ) =>
                /\ req'[r].pc = "done"
                /\ req'[r].code = "INVALID_TRANSITION"]_vars

\* C13: no listing ever has more than maxOffersPerListing offers that are
\* not in a terminal status.
C13_OfferLimit ==
    \A l \in DOMAIN listings :
        Cardinality({o \in OffersOf(l) : offers[o].status = "PENDING"})
            <= maxOffersPerListing

\* C14: no seller ever holds more than maxListingsPerUser listings that are
\* not in a terminal status.
C14_ListingLimit ==
    \A u \in Users :
        Cardinality({l \in DOMAIN listings :
                        /\ listings[l].sellerId = u
                        /\ listings[l].status \notin {"SOLD", "CANCELLED", "EXPIRED"}})
            <= maxListingsPerUser

MessagesOf(l) == {m \in DOMAIN messages : messages[m].listingId = l}

\* C15: no listing ever has more than maxMessagesPerListing messages.
C15_MessageLimit ==
    \A l \in DOMAIN listings :
        Cardinality(MessagesOf(l)) <= maxMessagesPerListing

\* C16: an updateOffer request that carries a status, from an actor who is
\* not the seller of the offer's listing, fails with FORBIDDEN and changes
\* neither the offer nor the listing.
C16_OnlySellerChangesStatus ==
    [][\A r \in Slots :
        ( /\ Arrived(r, "updateOffer")
          /\ req'[r].data.status # {}
          /\ req'[r].id \in DOMAIN offers
          /\ offers[req'[r].id].listingId \in DOMAIN listings
          /\ listings[offers[req'[r].id].listingId].sellerId # req'[r].actor ) =>
            /\ req'[r].pc = "done"
            /\ req'[r].code = "FORBIDDEN"
            /\ offers' = offers
            /\ listings' = listings]_vars

\* C18: the amount or the message of an offer changes only in a step of an
\* updateOffer request made by the offer's buyer while the offer is PENDING.
C18_TermsOnlyByBuyer ==
    [][\A o \in DOMAIN offers \cap DOMAIN offers' :
        ( \/ offers'[o].amount # offers[o].amount
          \/ offers'[o].message # offers[o].message ) =>
            \E r \in Slots :
                /\ req[r].op = "updateOffer"
                /\ req[r].id = o
                /\ req[r].actor = offers[o].buyerId
                /\ offers[o].status = "PENDING"]_vars

\* C19: a well-formed request of the buyer of a PENDING offer to set its
\* status to CANCELLED is not refused, and once it has succeeded the stored
\* status is CANCELLED.
C19_BuyerCanCancel ==
    [][\A r \in Slots :
        /\ ( /\ Arrived(r, "updateOffer")
             /\ req'[r].data.status = {"CANCELLED"}
             /\ req'[r].valid
             /\ req'[r].id \in DOMAIN offers
             /\ offers[req'[r].id].buyerId = req'[r].actor
             /\ offers[req'[r].id].status = "PENDING" ) =>
               (req'[r].pc = "done" => req'[r].code = "OK")
        /\ ( /\ req[r].op = "updateOffer"
             /\ req[r].data.status = {"CANCELLED"}
             /\ req'[r].pc = "done"
             /\ req'[r].code = "OK"
             /\ req[r].id \in DOMAIN offers' ) =>
               offers'[req[r].id].status = "CANCELLED"]_vars

\* C20: a listing that createListing has just stored is AVAILABLE when
\* features.autoApproval is on and PENDING_APPROVAL when it is off.
C20_InitialStatus ==
    \A r \in Slots :
        ( /\ Finished(r, "createListing")
          /\ req[r].code = "OK"
          /\ req[r].id \in DOMAIN listings ) =>
            listings[req[r].id].status =
                IF features.autoApproval THEN "AVAILABLE" ELSE "PENDING_APPROVAL"

\* C21: updateListing never changes a listing's status: while an
\* updateListing request is being served, whatever its patch (a status key
\* included), every step leaves the status of every listing as it was, so the
\* status after a successful update is the status before it.
C21_UpdateListingKeepsStatus ==
    [][\A r \in Slots :
        (req[r].op = "updateListing" \/ Arrived(r, "updateListing")) =>
            /\ DOMAIN listings' = DOMAIN listings
            /\ \A l \in DOMAIN listings : listings'[l].status = listings[l].status]_vars

\* The UPDATE of an updateListing whose body carried a price and a status has
\* been applied to a listing that is there.
C21_Witness ==
    \E r \in Slots :
        /\ req[r].op = "updateListing"
        /\ req[r].pc = "ul_find"
        /\ req[r].data.status # {}
        /\ req[r].data.price # {}
        /\ req[r].id \in DOMAIN listings

\* C22: a listing's sellerId is the id of the actor whose createListing
\* request stored it, and no step changes the sellerId of a stored listing.
C22_SellerIdFixed ==
    [][/\ \A l \in DOMAIN listings \cap DOMAIN listings' :
            listings'[l].sellerId = listings[l].sellerId
       /\ \A l \in DOMAIN listings' \ DOMAIN listings :
            \E r \in Slots :
                /\ Arrived(r, "createListing")
                /\ req'[r].id = l
                /\ listings'[l].sellerId = req'[r].actor]_vars

\* The UPDATE of an updateListing whose body carried a sellerId other than
\* the actor's has been applied to a listing that is there.
C22_Witness ==
    \E r \in Slots :
        /\ req[r].op = "updateListing"
        /\ req[r].pc = "ul_find"
        /\ req[r].data.sellerId \notin {{}, {req[r].actor}}
        /\ req[r].data.price # {}
        /\ req[r].id \in DOMAIN listings

\* C23: an updateListing request from an actor who is not the listing's
\* seller is answered FORBIDDEN before any storage write, whatever the
\* actor's role and whatever the patch, and the listings are left as they
\* were.
C23_UpdateByNonSellerForbidden ==
    [][\A r \in Slots :
        ( /\ Arrived(r, "updateListing")
          /\ req'[r].id \in DOMAIN listings
          /\ listings[req'[r].id].sellerId # req'[r].actor ) =>
            /\ req'[r].pc = "done"
            /\ req'[r].code = "FORBIDDEN"
            /\ listings' = listings]_vars

\* An actor whose role may delete and approve listings was refused the update
\* of a listing of another seller.
C23_Witness ==
    \E r \in Slots :
        /\ Finished(r, "updateListing")
        /\ req[r].code = "FORBIDDEN"
        /\ req[r].id \in DOMAIN listings
        /\ listings[req[r].id].sellerId # req[r].actor
        /\ RouteAllows(canDeleteListings, req[r].actor)
        /\ RouteAllows(canApproveListings, req[r].actor)

\* C24: a deleteListing request on a stored listing is let through when the
\* actor is the listing's seller or the actor's role is in
\* roles.canDeleteListings, and is answered FORBIDDEN when the actor is
\* neither.
C24_DeleteBySellerOrRole ==
    [][\A r \in Slots :
        ( /\ Arrived(r, "deleteListing")
          /\ req'[r].id \in DOMAIN listings ) =>
            IF \/ listings[req'[r].id].sellerId = req'[r].actor
               \/ RouteAllows(canDeleteListings, req'[r].actor)
            THEN req'[r].pc = "dl_delete"
            ELSE req'[r].pc = "done" /\ req'[r].code = "FORBIDDEN"]_vars

\* A step that leaves the three tables as they were.
TablesUnchanged == listings' = listings /\ offers' = offers /\ messages' = messages

\* The request that has just arrived in slot r was answered FORBIDDEN and no
\* table changed.
RefusedForbidden(r) ==
    req'[r].pc = "done" /\ req'[r].code = "FORBIDDEN" /\ TablesUnchanged

\* C25: a listing is stored only for an actor whose role is in
\* roles.canCreateListings, an offer only for an actor whose role is in
\* roles.canMakeOffers, and a listing is made AVAILABLE only by the approve
\* request of an actor whose role is in roles.canApproveListings; the
\* createListing, createOffer or approve request of any other actor is
\* answered FORBIDDEN and changes no table.
C25_RoleGating ==
    [][/\ \A r \in Slots :
            /\ ( Arrived(r, "createListing")
                 /\ UserRole[req'[r].actor] \notin canCreateListings ) => RefusedForbidden(r)
            /\ ( Arrived(r, "createOffer")
                 /\ UserRole[req'[r].actor] \notin canMakeOffers ) => RefusedForbidden(r)
            /\ ( Arrived(r, "approve")
                 /\ UserRole[req'[r].actor] \notin canApproveListings ) => RefusedForbidden(r)
       /\ \A l \in DOMAIN listings' \ DOMAIN listings :
            \E r \in Slots :
                /\ Arrived(r, "createListing")
                /\ UserRole[req'[r].actor] \in canCreateListings
       /\ \A o \in DOMAIN offers' \ DOMAIN offers :
            \E r \in Slots :
                /\ req[r].op = "createOffer"
                /\ UserRole[req[r].actor] \in canMakeOffers
       /\ \A l \in DOMAIN listings \cap DOMAIN listings' :
            ( listings'[l].status = "AVAILABLE" /\ listings[l].status # "AVAILABLE" ) =>
                \E r \in Slots :
                    /\ Arrived(r, "approve")
                    /\ UserRole[req'[r].actor] \in canApproveListings]_vars

\* An actor whose role may not make offers was refused an offer that was
\* otherwise in order: a valid body, on an AVAILABLE listing of another
\* seller.
C25_Witness ==
    \E r \in Slots :
        /\ Finished(r, "createOffer")
        /\ req[r].code = "FORBIDDEN"
        /\ req[r].valid
        /\ UserRole[req[r].actor] \notin canMakeOffers
        /\ req[r].id \in DOMAIN listings
        /\ listings[req[r].id].status = "AVAILABLE"
        /\ listings[req[r].id].sellerId # req[r].actor

\* C26: while features.offers is off no offer is created or changed, while
\* features.messaging is off no message is created, and while
\* features.autoApproval is on no approve request is served.
C26_FeatureFlagsGate ==
    [][/\ ~features.offers => offers' = offers
       /\ ~features.messaging => messages' = messages
       /\ features.autoApproval => \A r \in Slots : ~Arrived(r, "approve")]_vars

\* C27: under every interleaving of createOffer with accept, payment and
\* delete handlers, an offer is inserted only for a listing whose stored
\* status is AVAILABLE at the moment of the insertion.
C27_InsertOnlyWhileAvailable ==
    [][\A o \in DOMAIN offers' \ DOMAIN offers :
        /\ offers'[o].listingId \in DOMAIN listings
        /\ listings[offers'[o].listingId].status = "AVAILABLE"]_vars

\* C28 as claimed: a createListing, createOffer or createMessage request
\* whose body is malformed (an empty title, description or content, a
\* negative price or amount, an empty image list, a condition outside the four
\* values) is answered with the validation error and stores nothing.
C28_MalformedIsValidationError ==
    [][\A r \in Slots :
        ( /\ \/ Arrived(r, "createListing")
             \/ Arrived(r, "createOffer")
             \/ Arrived(r, "createMessage")
          /\ req'[r].bad ) =>
            /\ req'[r].pc = "done"
            /\ req'[r].code = "ZOD_ERROR"
            /\ TablesUnchanged]_vars

\* C28 as amended: such a request always fails before any storage write and
\* stores nothing; it is answered with the validation error whenever no
\* earlier check of the handler refuses it (the role for createListing; the
\* role, the listing's existence, its status and the self-offer test for
\* createOffer; the listing's existence for createMessage).
C28_MalformedStoresNothing ==
    [][\A r \in Slots :
        /\ ( Arrived(r, "createListing") /\ req'[r].bad ) =>
              /\ req'[r].pc = "done"
              /\ req'[r].code # "OK"
              /\ TablesUnchanged
              /\ UserRole[req'[r].actor] \in canCreateListings =>
                    req'[r].code = "ZOD_ERROR"
        /\ ( Arrived(r, "createOffer") /\ req'[r].bad ) =>
              /\ req'[r].pc = "done"
              /\ req'[r].code # "OK"
              /\ TablesUnchanged
              /\ ( /\ UserRole[req'[r].actor] \in canMakeOffers
                   /\ req'[r].id \in DOMAIN listings
                   /\ listings[req'[r].id].status = "AVAILABLE"
                   /\ listings[req'[r].id].sellerId # req'[r].actor ) =>
                    req'[r].code = "ZOD_ERROR"
        /\ ( Arrived(r, "createMessage") /\ req'[r].bad ) =>
              /\ req'[r].pc = "done"
              /\ req'[r].code # "OK"
              /\ TablesUnchanged
              /\ req'[r].id \in DOMAIN listings => req'[r].code = "ZOD_ERROR"]_vars

\* A createListing request with a malformed body was answered with the
\* validation error while a listing stored earlier is there.
C28_Witness ==
    \E r \in Slots :
        /\ Finished(r, "createListing")
        /\ req[r].bad
        /\ req[r].code = "ZOD_ERROR"
        /\ DOMAIN listings # {}

\* C29: in every reachable state each stored listing has at least one image
\* and at most maxImagesPerListing images.
C29_ImageCountWithinLimit ==
    \A l \in DOMAIN listings :
        /\ Len(listings[l].images) >= 1
        /\ Len(listings[l].images) <= maxImagesPerListing

\* The event types the plugin declares as its publications.
publications ==
    {"marketplace.listing.created", "marketplace.listing.updated",
     "marketplace.listing.deleted", "marketplace.listing.approved",
     "marketplace.offer.created", "marketplace.offer.accepted",
     "marketplace.offer.rejected", "marketplace.message.created"}

\* The domain event named for the operation of request rq.
EventNamed(rq) ==
    IF rq.op = "createListing" THEN {"marketplace.listing.created"}
    ELSE IF rq.op = "updateListing" THEN {"marketplace.listing.updated"}
    ELSE IF rq.op = "deleteListing" THEN {"marketplace.listing.deleted"}
    ELSE IF rq.op = "approve" THEN {"marketplace.listing.approved"}
    ELSE IF rq.op = "createOffer" THEN {"marketplace.offer.created"}
    ELSE IF rq.op = "updateOffer" /\ rq.data.status = {"ACCEPTED"}
    THEN {"marketplace.offer.accepted"}
    ELSE IF rq.op = "updateOffer" /\ rq.data.status = {"REJECTED"}
    THEN {"marketplace.offer.rejected"}
    ELSE IF rq.op = "createMessage" THEN {"marketplace.message.created"}
    ELSE {}

\* C30: a request that has succeeded has yielded the event named for its
\* operation exactly once, and a request that has failed has yielded no
\* event.
C30_EventPerOperation ==
    \A r \in Slots :
        req[r].pc = "done" =>
            IF req[r].code = "OK"
            THEN \A e \in EventNamed(req[r]) :
                     /\ e \in publications
                     /\ Cardinality({i \in DOMAIN req[r].events : req[r].events[i] = e}) = 1
            ELSE req[r].events = <<>>

\* The operations of C31 that name a listing.
NamesListing == {"updateListing", "deleteListing", "createOffer", "createMessage",
                 "approve", "payment"}

\* The route of the request lets its actor through to the controller.
PassesRoute(rq) ==
    /\ rq.op = "deleteListing" => RouteAllows(canDeleteListings, rq.actor)
    /\ rq.op = "createOffer" => RouteAllows(canMakeOffers, rq.actor)
    /\ rq.op = "approve" => RouteAllows(canApproveListings, rq.actor)

\* C31: an operation that names a listing which does not exist changes no
\* table and ends in the structured error LISTING_NOT_FOUND, never in an
\* untyped exception.
C31_MissingListingIsNotFound ==
    [][\A r \in Slots :
        /\ ( /\ \E op \in NamesListing : Arrived(r, op)
             /\ PassesRoute(req'[r])
             /\ req'[r].id \notin DOMAIN listings ) =>
               /\ TablesUnchanged
               /\ req'[r].pc = "done" => req'[r].code = "LISTING_NOT_FOUND"
        /\ ( /\ req[r].op \in NamesListing
             /\ req[r].pc \notin {"idle", "done"}
             /\ req[r].id \notin DOMAIN listings
             /\ req'[r].pc = "done" ) =>
               /\ TablesUnchanged
               /\ req'[r].code = "LISTING_NOT_FOUND"]_vars

\* Every stored offer and every stored message refers to a stored listing.
RefersToListings ==
    /\ \A o \in DOMAIN offers : offers[o].listingId \in DOMAIN listings
    /\ \A m \in DOMAIN messages : messages[m].listingId \in DOMAIN listings

\* C32: after every step each stored offer and each stored message refers to
\* a listing that is stored, and a step that deletes a listing leaves no
\* offer and no message with its id.
C32_ReferentialIntegrity ==
    [][/\ RefersToListings'
       /\ \A l \in DOMAIN listings \ DOMAIN listings' :
            /\ \A o \in DOMAIN offers' : offers'[o].listingId # l
            /\ \A m \in DOMAIN messages' : messages'[m].listingId # l]_vars

\* The delete of a listing that an offer or a message refers to was refused
\* by the storage, and the listing is still there.
C32_Witness ==
    \E r \in Slots :
        /\ Finished(r, "deleteListing")
        /\ req[r].code = "ERROR"
        /\ req[r].id \in DOMAIN listings
        /\ \/ \E o \in DOMAIN offers : offers[o].listingId = req[r].id
           \/ \E m \in DOMAIN messages : messages[m].listingId = req[r].id

\* C33: an updateOffer request on a stored offer whose listing is stored is
\* never answered LISTING_NOT_FOUND, and no step of it changes a listing
\* other than the one the offer's listingId names.
C33_UpdateOfferUsesOwnListing ==
    [][\A r \in Slots :
        /\ ( /\ Arrived(r, "updateOffer")
             /\ req'[r].id \in DOMAIN offers
             /\ offers[req'[r].id].listingId \in DOMAIN listings ) =>
               ~(req'[r].pc = "done" /\ req'[r].code = "LISTING_NOT_FOUND")
        /\ ( /\ req[r].op = "updateOffer"
             /\ req[r].pc \notin {"idle", "done"}
             /\ req[r].id \in DOMAIN offers ) =>
               \A l \in DOMAIN listings :
                   l # offers[req[r].id].listingId =>
                       (l \in DOMAIN listings' /\ listings'[l] = listings[l])]_vars

\* C34: no step of an updateOffer request made by the seller of the offer's
\* listing changes the offer's amount or message, whatever amount and
\* message the body carries.
C34_SellerKeepsTerms ==
    [][\A r \in Slots :
        ( /\ req[r].op = "updateOffer"
          /\ req[r].pc \notin {"idle", "done"}
          /\ req[r].id \in DOMAIN offers
          /\ offers[req[r].id].listingId \in DOMAIN listings
          /\ listings[offers[req[r].id].listingId].sellerId = req[r].actor ) =>
            /\ req[r].id \in DOMAIN offers'
            /\ offers'[req[r].id].amount = offers[req[r].id].amount
            /\ offers'[req[r].id].message = offers[req[r].id].message]_vars

\* C35: whatever the sequence of init, onStart and onStop calls, at most one
\* metrics timer is active at any time, and when onStop has returned no
\* metrics timer of the plugin is active.
C35_OneTimerAndNoneAfterStop ==
    [][/\ Cardinality(ActiveTimers') <= 1
       /\ onStop => ActiveTimers' = {}]_vars

\* How many times handler h was called by the emit recorded in calls.
CallsOf(h) == Cardinality({i \in DOMAIN calls : calls[i][1] = h})

\* How many registrations of h the array of the event held when the emit
\* began.
RegistrationsAtStart(h) ==
    Cardinality({i \in DOMAIN dispatch.start : dispatch.start[i] = h})

\* C36: when emit(e, d) has returned, it has called the handlers that were
\* subscribed to e when it began, once per subscription and in subscription
\* order, each with d, and no other handler; with no subscriber of e it has
\* called nothing.
C36_EmitCallsSubscribersInOrder ==
    ~dispatch.on =>
        calls = [i \in 1..Len(dispatch.start) |-> <<dispatch.start[i], dispatch.data>>]

\* C37: when emit(e, d) has returned, every handler that was subscribed to e
\* when it began and that no unsubscribe removed during the dispatch has
\* been called once for each of its subscriptions.
C37_ReentrantDispatch ==
    ~dispatch.on =>
        \A h \in Handlers :
            (RegistrationsAtStart(h) > 0 /\ h \notin dispatch.removed) =>
                CallsOf(h) = RegistrationsAtStart(h)

\* The handlers of event e in the listeners map L, in order.
ListenersOf(L, e) == IF e \in DOMAIN L THEN L[e] ELSE <<>>

\* Array b is array a without the element at index i.
WithoutIndex(a, b, i) ==
    /\ Len(b) = Len(a) - 1
    /\ \A n \in 1..Len(b) : b[n] = IF n < i THEN a[n] ELSE a[n + 1]

\* C38: listenerCount(e) is the length of the array of e, which goes up by
\* one with every subscribe(e, h), down by one with every unsubscribe(e, h)
\* that finds h registered, and to 0 with a
\* clear of e, so that it is the number of subscribe calls since the last
\* clear of e less the number of unsubscribe calls that found their handler;
\* unsubscribe removes the earliest registration of h and nothing else, is a
\* no-op when h is not registered for e, and neither subscribe nor
\* unsubscribe changes the listeners of another event.
C38_ListenerCount ==
    [][(listeners' # listeners \/ busCall' # busCall) =>
        LET e == busCall'.event
            h == busCall'.handler
            before == ListenersOf(listeners, e)
            after == ListenersOf(listeners', e) IN
        /\ busCall'.op = "subscribe" =>
              /\ Len(after) = Len(before) + 1
              /\ after = Append(before, h)
        /\ busCall'.op = "unsubscribe" =>
              IF \E i \in DOMAIN before : before[i] = h
              THEN /\ Len(after) = Len(before) - 1
                   /\ \E i \in DOMAIN before :
                          /\ before[i] = h
                          /\ \A j \in 1..(i - 1) : before[j] # h
                          /\ WithoutIndex(before, after, i)
              ELSE listeners' = listeners
        /\ busCall'.op \in {"subscribe", "unsubscribe"} =>
              \A x \in Events \ {e} :
                  ListenersOf(listeners', x) = ListenersOf(listeners, x)
        /\ busCall'.op = "clear" =>
              /\ Len(after) = 0
              /\ \A x \in Events \ {e} :
                     ListenersOf(listeners', x) = ListenersOf(listeners, x)
        /\ busCall'.op = "clearAll" => \A x \in Events : listenerCount(x)' = 0
        /\ \A x \in Events : listenerCount(x)' = Len(ListenersOf(listeners', x))]_vars

\* The last call was an unsubscribe(e, h) after which h is still registered
\* for e: h was registered more than once and one registration was removed.
C38_Witness ==
    /\ busCall.op = "unsubscribe"
    /\ \E i \in DOMAIN ListenersOf(listeners, busCall.event) :
           listeners[busCall.event][i] = busCall.handler

====
